---- MODULE Spec2Model ----
(***************************************************************************)
(* A model of the cryptographic-agility layer of cryspen/rustls:           *)
(*   - libcrux-provider/src/hash.rs : Sha256 / Sha256Context               *)
(*   - rustls/src/crypto/signer.rs  : CertifiedKey                         *)
(*   - rustls/src/compress.rs       : Zlib and Brotli cert (de)compressors *)
(*                                                                         *)
(* The three families are independent; each has its own next-state         *)
(* relation and specification over the shared variable list.  The          *)
(* backends the adapters call (libcrux Sha2_256, zlib-rs, brotli) are      *)
(* external crates: they are modelled by small executable stand-ins that   *)
(* keep the shape of the API the adapter code relies on.                   *)
(***************************************************************************)
EXTENDS Integers, Sequences, FiniteSets, TLC

(***************************************************************************)
(* Bounds of the model.                                                    *)
(***************************************************************************)
\* Longest byte string a hash context accumulates.
MaxLen == 3

\* The byte alphabet of hashed data.
Byte == {0, 1}

RECURSIVE SeqsUpTo(_, _)
\* All sequences over S of length at most n.
SeqsUpTo(S, n) ==
  IF n = 0 THEN {<<>>}
  ELSE LET shorter == SeqsUpTo(S, n - 1)
       IN shorter \cup {Append(s, x) : s \in {t \in shorter : Len(t) = n - 1}, x \in S}

\* Chunks passed to one update call (the empty chunk included).
Chunks == SeqsUpTo(Byte, MaxLen)

(***************************************************************************)
(* libcrux::digest::Sha2_256, the streaming backend, and sha2_256, the     *)
(* one-shot backend.  A stand-in Merkle-Damgard hash with a 2-byte block:  *)
(* the streaming state keeps a chaining value, the bytes of the partial    *)
(* block and the total length; the one-shot function walks whole blocks.   *)
(***************************************************************************)
Compress(h, b1, b2) == (h * 31 + b1 * 7 + b2 * 3 + 1) % 251

Sha2_256_new == [h |-> 11, buf |-> <<>>, n |-> 0]

AbsorbByte(s, b) ==
  IF Len(s.buf) = 1
    THEN [h |-> Compress(s.h, s.buf[1], b), buf |-> <<>>, n |-> s.n + 1]
    ELSE [h |-> s.h, buf |-> <<b>>, n |-> s.n + 1]

RECURSIVE Sha2_256_update(_, _)
Sha2_256_update(s, data) ==
  IF data = <<>> THEN s
  ELSE Sha2_256_update(AbsorbByte(s, Head(data)), Tail(data))

\* Padding: a marker byte closes the partial block, a length block follows.
Pad(h, rest, n) ==
  LET closed == IF rest = <<>> THEN Compress(h, 9, 9) ELSE Compress(h, rest[1], 9)
  IN Compress(closed, n % 251, 0)

Sha2_256_finish(s) == Pad(s.h, s.buf, s.n)

RECURSIVE Blocks(_, _, _)
Blocks(h, data, n) ==
  IF Len(data) >= 2
    THEN Blocks(Compress(h, data[1], data[2]), SubSeq(data, 3, Len(data)), n)
    ELSE Pad(h, data, n)

sha2_256(data) == Blocks(11, data, Len(data))

(***************************************************************************)
(* State.                                                                  *)
(***************************************************************************)
VARIABLES
  ctx,     \* hash: slot -> the Sha2_256 inside a live Sha256Context, or NoCtx
  fed,     \* hash (history): slot -> bytes passed to update, inherited ones first
  pair,    \* hash (history): the latest fork, while original and fork both live
  last,    \* hash: the last call and what it returned
  lock,    \* shared context: the holder of its mutex, or Free
  shared,  \* shared context: the Sha2_256 inside, or NoCtx once finished
  acc,     \* shared context (history): bytes its owner passed to update
  own,     \* shared context: the owner's call in progress (&mut self / Box<Self>)
  thr,     \* shared context: per thread, its fork()/fork_finish() call in progress
  cks,     \* signer: slot -> a CertifiedKey value, or NoKey
  given,   \* signer (history): slot -> the chain its value was constructed from
  klast,   \* signer: the last call and what it returned
  enc,     \* compress: the last CertCompressor::compress call
  dec      \* compress: the last CertDecompressor::decompress call

hashVars == <<ctx, fed, pair, last>>
concVars == <<lock, shared, acc, own, thr>>
keyVars == <<cks, given, klast>>
codecVars == <<enc, dec>>
vars == <<ctx, fed, pair, last, lock, shared, acc, own, thr, cks, given, klast, enc, dec>>

\* An empty slot (no context lives there).
NoCtx == [h |-> -1, buf |-> <<>>, n |-> 0]
\* The contexts the handshake engine holds at once: two slots, enough for an
\* original and its fork, and (a slot being free again after finish) for forks of
\* forks and for several forks of one original in turn.
Slots == {1, 2}
Live(c) == ctx[c] # NoCtx

Call(op, slot, data, out) == [op |-> op, slot |-> slot, data |-> data, out |-> out]

\* pair: A is what the original held at fork, Bo and Bf what the original and the
\* fork were given since.
NoPair == [orig |-> 0, fork |-> 0, A |-> <<>>, Bo |-> <<>>, Bf |-> <<>>]

InitHash ==
  /\ ctx = [c \in Slots |-> NoCtx]
  /\ fed = [c \in Slots |-> <<>>]
  /\ pair = NoPair
  /\ last = Call("init", 0, <<>>, 0)

(***************************************************************************)
(* impl hash::Hash for Sha256                                              *)
(***************************************************************************)
\* Sha256::start: a boxed context around a new hasher.
Start(c) ==
  /\ ~Live(c)
  /\ ctx' = [ctx EXCEPT ![c] = Sha2_256_new]
  /\ fed' = [fed EXCEPT ![c] = <<>>]
  /\ last' = Call("start", c, <<>>, 0)
  /\ UNCHANGED pair
  /\ UNCHANGED <<concVars, keyVars, codecVars>>

\* Sha256::hash: the one-shot digest.
Hash(data) ==
  /\ last' = Call("hash", 0, data, sha2_256(data))
  /\ UNCHANGED <<ctx, fed, pair>>
  /\ UNCHANGED <<concVars, keyVars, codecVars>>

(***************************************************************************)
(* impl hash::Context for Sha256Context.  The owner calls these one at a   *)
(* time, so each takes the context's mutex and drops it within the call.   *)
(***************************************************************************)
\* Mutant of Clone: the copy starts from a new hasher.
CloneFresh(s) == Sha2_256_new
\* Sha2_256::clone under the lock: a copy by value.
Clone(s) == s

\* Mutant of Update: the hasher is replaced by a new one before absorbing.
UpdateFresh(c, data) ==
  /\ Live(c)
  /\ Len(fed[c]) + Len(data) <= MaxLen
  /\ ctx' = [ctx EXCEPT ![c] = Sha2_256_update(Sha2_256_new, data)]
  /\ fed' = [fed EXCEPT ![c] = fed[c] \o data]
  /\ pair' = IF c = pair.orig THEN [pair EXCEPT !.Bo = @ \o data]
             ELSE IF c = pair.fork THEN [pair EXCEPT !.Bf = @ \o data]
             ELSE pair
  /\ last' = Call("update", c, data, 0)
  /\ UNCHANGED <<concVars, keyVars, codecVars>>

\* update(&mut self, data): lock, absorb, unlock.
Update(c, data) ==
  /\ Live(c)
  /\ Len(fed[c]) + Len(data) <= MaxLen
  /\ ctx' = [ctx EXCEPT ![c] = Sha2_256_update(ctx[c], data)]
  /\ fed' = [fed EXCEPT ![c] = fed[c] \o data]
  /\ pair' = IF c = pair.orig THEN [pair EXCEPT !.Bo = @ \o data]
             ELSE IF c = pair.fork THEN [pair EXCEPT !.Bf = @ \o data]
             ELSE pair
  /\ last' = Call("update", c, data, 0)
  /\ UNCHANGED <<concVars, keyVars, codecVars>>

\* fork(&self): lock, clone, unlock, box the clone as a new context.
Fork(c, d) ==
  /\ Live(c)
  /\ ~Live(d)
  /\ ctx' = [ctx EXCEPT ![d] = Clone(ctx[c])]
  /\ fed' = [fed EXCEPT ![d] = fed[c]]
  /\ pair' = [orig |-> c, fork |-> d, A |-> fed[c], Bo |-> <<>>, Bf |-> <<>>]
  /\ last' = Call("fork", c, <<>>, d)
  /\ UNCHANGED <<concVars, keyVars, codecVars>>

\* Mutant of ForkFinish: finish runs on the locked hasher itself, not on a clone,
\* and leaves it finalised (the padding absorbed).
ForkFinishInPlace(c) ==
  /\ Live(c)
  /\ last' = Call("fork_finish", c, <<>>, Sha2_256_finish(ctx[c]))
  /\ ctx' = [ctx EXCEPT ![c] = [h |-> Sha2_256_finish(ctx[c]), buf |-> <<>>, n |-> @.n]]
  /\ UNCHANGED <<fed, pair>>
  /\ UNCHANGED <<concVars, keyVars, codecVars>>

\* fork_finish(&self): lock, clone, unlock, finish the clone.
ForkFinish(c) ==
  /\ Live(c)
  /\ last' = Call("fork_finish", c, <<>>, Sha2_256_finish(Clone(ctx[c])))
  /\ UNCHANGED <<ctx, fed, pair>>
  /\ UNCHANGED <<concVars, keyVars, codecVars>>

\* finish(self: Box<Self>): lock, finish in place; the box is consumed.
Finish(c) ==
  /\ Live(c)
  /\ last' = Call("finish", c, fed[c], Sha2_256_finish(ctx[c]))
  /\ ctx' = [ctx EXCEPT ![c] = NoCtx]
  /\ fed' = [fed EXCEPT ![c] = <<>>]
  /\ pair' = IF c \in {pair.orig, pair.fork} THEN NoPair ELSE pair
  /\ UNCHANGED <<concVars, keyVars, codecVars>>

NextHash ==
  \/ \E c \in Slots : Start(c)
  \/ \E data \in SeqsUpTo(Byte, MaxLen) : Hash(data)
  \/ \E c \in Slots, data \in Chunks : Update(c, data)
  \/ \E c \in Slots, d \in Slots : Fork(c, d)
  \/ \E c \in Slots : ForkFinish(c)
  \/ \E c \in Slots : Finish(c)

(***************************************************************************)
(* One Sha256Context shared by reference.  fork() and fork_finish() take    *)
(* &self, so several threads may run them on the same context at once;      *)
(* update() takes &mut self and finish() takes the box, so the owner runs    *)
(* them only while no thread is inside a call.  Each call is split at the    *)
(* points where the mutex is taken and where its guard is dropped.           *)
(***************************************************************************)
\* Threads that borrow the shared context.
NThreads == 2
Threads == 1..NThreads

\* Mutex states: nobody holds it, or the owner's thread does, or thread t >= 1.
Free == 0
Owner == -1

Idle == [pc |-> "idle", op |-> "none", hasher |-> NoCtx, ret |-> NoCtx, out |-> 0]
OwnIdle == [pc |-> "idle", op |-> "none", data |-> <<>>, out |-> 0]

InitConc ==
  /\ lock = Free
  /\ shared = Sha2_256_new
  /\ acc = <<>>
  /\ own = OwnIdle
  /\ thr = [t \in Threads |-> Idle]

NoOwnerCall == own.pc = "idle"
NoBorrow == \A t \in Threads : thr[t].pc = "idle"

\* A thread enters fork() or fork_finish() on the shared context.
Enter(t, op) ==
  /\ shared # NoCtx
  /\ NoOwnerCall
  /\ thr[t].pc = "idle"
  /\ thr' = [thr EXCEPT ![t] = [Idle EXCEPT !.pc = "lock", !.op = op]]
  /\ UNCHANGED <<lock, shared, acc, own>>
  /\ UNCHANGED <<hashVars, keyVars, codecVars>>

\* self.0.lock(): blocks until the mutex is free.
Acquire(t) ==
  /\ thr[t].pc = "lock"
  /\ lock = Free
  /\ lock' = t
  /\ thr' = [thr EXCEPT ![t].pc = "clone"]
  /\ UNCHANGED <<shared, acc, own>>
  /\ UNCHANGED <<hashVars, keyVars, codecVars>>

\* .clone() through the guard: the thread's own copy of the hasher.
Copy(t) ==
  /\ thr[t].pc = "clone"
  /\ thr' = [thr EXCEPT ![t].pc = "unlock", ![t].hasher = Clone(shared)]
  /\ UNCHANGED <<lock, shared, acc, own>>
  /\ UNCHANGED <<hashVars, keyVars, codecVars>>

\* Mutant of Release: the guard outlives the let statement; the mutex stays taken
\* while the copy is finalised or boxed.
ReleaseLate(t) ==
  /\ thr[t].pc = "unlock"
  /\ thr' = [thr EXCEPT ![t].pc = "tail"]
  /\ UNCHANGED <<lock, shared, acc, own>>
  /\ UNCHANGED <<hashVars, keyVars, codecVars>>

\* End of the let statement: the guard (a temporary of the block's tail
\* expression) is dropped and the mutex freed.
Release(t) ==
  /\ thr[t].pc = "unlock"
  /\ lock' = Free
  /\ thr' = [thr EXCEPT ![t].pc = "tail"]
  /\ UNCHANGED <<shared, acc, own>>
  /\ UNCHANGED <<hashVars, keyVars, codecVars>>

\* The rest of the call, on the copy: fork() boxes it as a new context,
\* fork_finish() finishes it.  Returning drops whatever guard is still alive.
Finalise(t) ==
  /\ thr[t].pc = "tail"
  /\ thr' = [thr EXCEPT ![t].pc = "done",
                        ![t].ret = IF thr[t].op = "fork" THEN thr[t].hasher ELSE NoCtx,
                        ![t].out = IF thr[t].op = "fork_finish"
                                     THEN Sha2_256_finish(thr[t].hasher) ELSE 0]
  /\ lock' = IF lock = t THEN Free ELSE lock
  /\ UNCHANGED <<shared, acc, own>>
  /\ UNCHANGED <<hashVars, keyVars, codecVars>>

\* The caller takes the result; its borrow of the context ends.
Leave(t) ==
  /\ thr[t].pc = "done"
  /\ thr' = [thr EXCEPT ![t] = Idle]
  /\ UNCHANGED <<lock, shared, acc, own>>
  /\ UNCHANGED <<hashVars, keyVars, codecVars>>

\* The owner enters update(data) or finish(): no borrow is outstanding.
OwnerEnter(op, data) ==
  /\ shared # NoCtx
  /\ NoOwnerCall
  /\ NoBorrow
  /\ Len(acc) + Len(data) <= MaxLen
  /\ own' = [pc |-> "lock", op |-> op, data |-> data, out |-> 0]
  /\ UNCHANGED <<lock, shared, acc, thr>>
  /\ UNCHANGED <<hashVars, keyVars, codecVars>>

OwnerAcquire ==
  /\ own.pc = "lock"
  /\ lock = Free
  /\ lock' = Owner
  /\ own' = [own EXCEPT !.pc = "work"]
  /\ UNCHANGED <<shared, acc, thr>>
  /\ UNCHANGED <<hashVars, keyVars, codecVars>>

\* Under the guard: update absorbs the data, finish finishes in place.
OwnerWork ==
  /\ own.pc = "work"
  /\ IF own.op = "update"
       THEN /\ shared' = Sha2_256_update(shared, own.data)
            /\ acc' = acc \o own.data
            /\ own' = [own EXCEPT !.pc = "unlock"]
       ELSE /\ own' = [own EXCEPT !.pc = "unlock", !.out = Sha2_256_finish(shared)]
            /\ UNCHANGED <<shared, acc>>
  /\ UNCHANGED <<lock, thr>>
  /\ UNCHANGED <<hashVars, keyVars, codecVars>>

\* The guard is dropped at the end of the statement; finish() also drops the box.
OwnerRelease ==
  /\ own.pc = "unlock"
  /\ lock' = Free
  /\ own' = [own EXCEPT !.pc = "idle"]
  /\ shared' = IF own.op = "finish" THEN NoCtx ELSE shared
  /\ UNCHANGED <<acc, thr>>
  /\ UNCHANGED <<hashVars, keyVars, codecVars>>

\* Sha256::start again, after the shared context was finished.
Restart ==
  /\ shared = NoCtx
  /\ shared' = Sha2_256_new
  /\ acc' = <<>>
  /\ own' = OwnIdle
  /\ UNCHANGED <<lock, thr>>
  /\ UNCHANGED <<hashVars, keyVars, codecVars>>

ThreadStep(t) ==
  \/ Acquire(t)
  \/ Copy(t)
  \/ Release(t)
  \/ Finalise(t)

NextConc ==
  \/ \E t \in Threads, op \in {"fork", "fork_finish"} : Enter(t, op)
  \/ \E t \in Threads : Acquire(t)
  \/ \E t \in Threads : Copy(t)
  \/ \E t \in Threads : Release(t)
  \/ \E t \in Threads : Finalise(t)
  \/ \E t \in Threads : Leave(t)
  \/ \E data \in Chunks : OwnerEnter("update", data)
  \/ OwnerEnter("finish", <<>>)
  \/ OwnerAcquire
  \/ OwnerWork
  \/ OwnerRelease
  \/ Restart

(***************************************************************************)
(* rustls/src/crypto/signer.rs: CertifiedKey.                              *)
(***************************************************************************)
\* Longest certificate chain.
MaxChain == 2

\* CertificateDer values and Arc<dyn SigningKey> handles.
Cert == {1, 2}
Keys == {"rsa", "ecdsa"}
Chains == SeqsUpTo(Cert, MaxChain)
KeySlots == {1, 2}

\* Option<Vec<u8>>
None == [some |-> FALSE, bytes |-> <<>>]

\* A slot holding no CertifiedKey.
NoKey == [cert |-> <<>>, key |-> "none", ocsp |-> None]

\* Result<&CertificateDer, Error>
Ok(v) == [ok |-> TRUE, val |-> v, err |-> "none"]
Err(e) == [ok |-> FALSE, val |-> 0, err |-> e]

\* Mutant of CertifiedKey_new: the first certificate is not stored.
CertifiedKey_new_skip_first(cert, key) ==
  [cert |-> IF cert = <<>> THEN cert ELSE SubSeq(cert, 2, Len(cert)), key |-> key, ocsp |-> None]
\* CertifiedKey::new
CertifiedKey_new(cert, key) == [cert |-> cert, key |-> key, ocsp |-> None]

\* Mutant of end_entity_cert: the last certificate of the chain is returned.
end_entity_cert_last(self) ==
  IF Len(self.cert) = 0 THEN Err("NoCertificatesPresented") ELSE Ok(self.cert[Len(self.cert)])
\* CertifiedKey::end_entity_cert: self.cert.first().ok_or(NoCertificatesPresented)
end_entity_cert(self) ==
  IF Len(self.cert) = 0 THEN Err("NoCertificatesPresented") ELSE Ok(self.cert[1])

KCall(op, slot, chain, key, res) ==
  [op |-> op, slot |-> slot, chain |-> chain, key |-> key, res |-> res]

InitKey ==
  /\ cks = [s \in KeySlots |-> NoKey]
  /\ given = [s \in KeySlots |-> <<>>]
  /\ klast = KCall("init", 0, <<>>, "none", Ok(0))

\* let ck = CertifiedKey::new(chain, key)
NewKey(s, chain, key) ==
  /\ cks[s] = NoKey
  /\ cks' = [cks EXCEPT ![s] = CertifiedKey_new(chain, key)]
  /\ given' = [given EXCEPT ![s] = chain]
  /\ klast' = KCall("new", s, chain, key, Ok(0))
  /\ UNCHANGED <<hashVars, concVars, codecVars>>

\* ck.end_entity_cert()
EndEntityCert(s) ==
  /\ cks[s] # NoKey
  /\ klast' = KCall("end_entity_cert", s, cks[s].cert, cks[s].key, end_entity_cert(cks[s]))
  /\ UNCHANGED <<cks, given>>
  /\ UNCHANGED <<hashVars, concVars, codecVars>>

\* ck.clone() (derived Clone): every field is cloned.
CloneKey(s, d) ==
  /\ cks[s] # NoKey
  /\ cks[d] = NoKey
  /\ cks' = [cks EXCEPT ![d] = [cert |-> cks[s].cert, key |-> cks[s].key, ocsp |-> cks[s].ocsp]]
  /\ given' = [given EXCEPT ![d] = given[s]]
  /\ klast' = KCall("clone", d, cks[s].cert, cks[s].key, Ok(0))
  /\ UNCHANGED <<hashVars, concVars, codecVars>>

\* A read of the public fields cert, key and ocsp.
ReadFields(s) ==
  /\ cks[s] # NoKey
  /\ klast' = KCall("read", s, cks[s].cert, cks[s].key, Ok(Len(cks[s].cert)))
  /\ UNCHANGED <<cks, given>>
  /\ UNCHANGED <<hashVars, concVars, codecVars>>

\* The value is dropped with the configuration that held it.
DropKey(s) ==
  /\ cks[s] # NoKey
  /\ cks' = [cks EXCEPT ![s] = NoKey]
  /\ given' = [given EXCEPT ![s] = <<>>]
  /\ klast' = KCall("drop", s, <<>>, "none", Ok(0))
  /\ UNCHANGED <<hashVars, concVars, codecVars>>

NextKey ==
  \/ \E s \in KeySlots, chain \in Chains, key \in Keys : NewKey(s, chain, key)
  \/ \E s \in KeySlots : EndEntityCert(s)
  \/ \E s \in KeySlots, d \in KeySlots : CloneKey(s, d)
  \/ \E s \in KeySlots : ReadFields(s)
  \/ \E s \in KeySlots : DropKey(s)

(***************************************************************************)
(* rustls/src/compress.rs.  The zlib-rs and brotli crates are stood in for  *)
(* by two small codecs with the API shape the adapters use: a slice API     *)
(* returning (filled, ReturnCode) for zlib-rs, reader/writer streams for    *)
(* brotli.                                                                  *)
(***************************************************************************)
\* Longest certificate message of arbitrary content handed to a compressor.
MaxInput == 3

\* feat_brotli's constants.
BUFFER_SIZE == 4096
LGWIN == 22
QUALITY_FAST == 4
QUALITY_SLOW == 11
\* zlib_rs::c_api::Z_BEST_COMPRESSION
Z_BEST_COMPRESSION == 9

Levels == {"Interactive", "Amortized"}
Algorithms == {"Zlib", "Brotli"}

RECURSIVE Repeat(_, _)
Repeat(b, n) == IF n <= 0 THEN <<>> ELSE <<b>> \o Repeat(b, n - 1)

RECURSIVE Sum(_)
Sum(data) == IF data = <<>> THEN 0 ELSE Head(data) + Sum(Tail(data))

Min(a, b) == IF a <= b THEN a ELSE b

\* tests::test_trivial_pairwise: vec![0u8; plain_len], at the smallest test size.
TrivialInput == Repeat(0, 16)
\* Inputs of compress: every content up to MaxInput bytes, and the trivial one.
Inputs == SeqsUpTo(Byte, MaxInput) \cup {TrivialInput}

RECURSIVE RunLen(_, _)
\* Length of the run of data[1] that data starts with, at most cap.
RunLen(data, cap) ==
  IF data = <<>> THEN 0
  ELSE IF Len(data) = 1 \/ cap <= 1 THEN 1
  ELSE IF data[2] = data[1] THEN 1 + RunLen(Tail(data), cap - 1)
  ELSE 1

(*--- zlib-rs -------------------------------------------------------------*)
\* deflate::compress_bound
compress_bound(n) == n + 6

\* DeflateConfig::default() and DeflateConfig::new(level)
DeflateConfig_default == [level |-> 6]
DeflateConfig_new(level) == [level |-> level]

Adler(data) == (1 + Sum(data)) % 251

RECURSIVE RleBody(_, _)
RleBody(data, cap) ==
  IF data = <<>> THEN <<>>
  ELSE LET k == RunLen(data, cap)
       IN <<k, data[1]>> \o RleBody(SubSeq(data, k + 1, Len(data)), cap)

\* The zlib stream of input: header, one block (stored, or run-length pairs closed
\* by 0, whichever is shorter), checksum.  Higher levels look for longer runs.
Deflate(input, config) ==
  LET cap == IF config.level >= Z_BEST_COMPRESSION THEN 255 ELSE 3
      rle == <<2>> \o RleBody(input, cap) \o <<0>>
      stored == <<1, Len(input)>> \o input
      block == IF Len(rle) < Len(stored) THEN rle ELSE stored
  IN <<120>> \o block \o <<Adler(input)>>

\* deflate::compress_slice(output, input, config) -> (output_filled, rc); mem_ok
\* says whether the deflate state could be allocated.
compress_slice(output_len, input, config, mem_ok) ==
  IF ~mem_ok THEN [filled |-> <<>>, rc |-> "MemError"]
  ELSE LET z == Deflate(input, config)
       IN IF Len(z) > output_len
            THEN [filled |-> SubSeq(z, 1, output_len), rc |-> "BufError"]
            ELSE [filled |-> z, rc |-> "Ok"]

RECURSIVE InflateRuns(_, _, _, _)
\* Run-length pairs from input[pos] on; out is what was written so far.
InflateRuns(input, pos, out, output_len) ==
  IF pos > Len(input) THEN [filled |-> out, rc |-> "BufError", pos |-> pos]
  ELSE IF input[pos] = 0 THEN [filled |-> out, rc |-> "Ok", pos |-> pos + 1]
  ELSE IF pos + 1 > Len(input) THEN [filled |-> out, rc |-> "BufError", pos |-> pos]
  ELSE IF Len(out) + input[pos] > output_len
    THEN [filled |-> out \o Repeat(input[pos + 1], output_len - Len(out)),
          rc |-> "BufError", pos |-> pos]
  ELSE InflateRuns(input, pos + 2, out \o Repeat(input[pos + 1], input[pos]), output_len)

InflateStored(input, output_len) ==
  IF Len(input) < 3 THEN [filled |-> <<>>, rc |-> "BufError", pos |-> 3]
  ELSE LET n == input[3]
       IN IF n > output_len
            THEN [filled |-> SubSeq(input, 4, Min(Len(input), 3 + output_len)),
                  rc |-> "BufError", pos |-> 4]
          ELSE IF Len(input) < 3 + n
            THEN [filled |-> SubSeq(input, 4, Len(input)), rc |-> "BufError", pos |-> 4]
          ELSE [filled |-> SubSeq(input, 4, 3 + n), rc |-> "Ok", pos |-> 4 + n]

\* inflate::uncompress_slice(output, input, config) -> (output_filled, rc)
uncompress_slice(output_len, input) ==
  IF Len(input) < 2 THEN [filled |-> <<>>, rc |-> "BufError"]
  ELSE IF input[1] # 120 \/ input[2] \notin {1, 2} THEN [filled |-> <<>>, rc |-> "DataError"]
  ELSE LET b == IF input[2] = 1 THEN InflateStored(input, output_len)
                ELSE InflateRuns(input, 3, <<>>, output_len)
       IN IF b.rc # "Ok" THEN [filled |-> b.filled, rc |-> b.rc]
          ELSE IF b.pos > Len(input) THEN [filled |-> b.filled, rc |-> "BufError"]
          ELSE IF input[b.pos] # Adler(b.filled) THEN [filled |-> b.filled, rc |-> "DataError"]
          ELSE [filled |-> b.filled, rc |-> "Ok"]

(*--- brotli --------------------------------------------------------------*)
RECURSIVE LiteralBlocks(_)
\* One literal meta-block per buffer-full of input.
LiteralBlocks(data) ==
  IF data = <<>> THEN <<>>
  ELSE LET n == Min(Len(data), BUFFER_SIZE)
       IN <<1, n>> \o SubSeq(data, 1, n) \o LiteralBlocks(SubSeq(data, n + 1, Len(data)))

RECURSIVE RunBlocks(_)
\* One repeat meta-block per run, a literal one for a single byte.
RunBlocks(data) ==
  IF data = <<>> THEN <<>>
  ELSE LET k == RunLen(data, 255)
           rest == SubSeq(data, k + 1, Len(data))
       IN IF k >= 2 THEN <<2, k, data[1]>> \o RunBlocks(rest)
          ELSE <<1, 1, data[1]>> \o RunBlocks(rest)

\* brotli::CompressorWriter::new(output, buffer_size, quality, lgwin)
CompressorWriter_new(quality, lgwin) == [out |-> <<lgwin>>, quality |-> quality]
\* Write::write_all on the CompressorWriter; the Vec behind it takes every byte.
write_all(w, input) ==
  [w EXCEPT !.out = @ \o (IF w.quality >= QUALITY_SLOW THEN RunBlocks(input)
                          ELSE LiteralBlocks(input))]
\* CompressorWriter::into_inner: flushes, closes the stream, hands the Vec back.
into_inner(w) == w.out \o <<3>>

RECURSIVE BrotliBlocks(_, _, _, _)
\* Meta-blocks from input[pos] on, written to a cursor over output_len bytes.
BrotliBlocks(input, pos, out, output_len) ==
  IF pos > Len(input) THEN [ok |-> FALSE, out |-> out]
  ELSE IF input[pos] = 3 THEN [ok |-> TRUE, out |-> out]
  ELSE IF input[pos] = 1 THEN
    IF pos + 1 > Len(input) \/ pos + 1 + input[pos + 1] > Len(input)
      THEN [ok |-> FALSE, out |-> out]
    ELSE IF Len(out) + input[pos + 1] > output_len
      THEN [ok |-> FALSE,
            out |-> out \o SubSeq(input, pos + 2, pos + 1 + output_len - Len(out))]
    ELSE BrotliBlocks(input, pos + 2 + input[pos + 1],
                      out \o SubSeq(input, pos + 2, pos + 1 + input[pos + 1]), output_len)
  ELSE IF input[pos] = 2 THEN
    IF pos + 2 > Len(input) THEN [ok |-> FALSE, out |-> out]
    ELSE IF Len(out) + input[pos + 1] > output_len
      THEN [ok |-> FALSE, out |-> out \o Repeat(input[pos + 2], output_len - Len(out))]
    ELSE BrotliBlocks(input, pos + 3, out \o Repeat(input[pos + 2], input[pos + 1]),
                      output_len)
  ELSE [ok |-> FALSE, out |-> out]

\* brotli::BrotliDecompress(&mut in_cursor, &mut out_cursor); out is what the
\* output cursor was given, so its position is Len(out).
BrotliDecompress(input, output_len) ==
  IF Len(input) < 1 \/ input[1] \notin 10..24 THEN [ok |-> FALSE, out |-> <<>>]
  ELSE BrotliBlocks(input, 2, <<>>, output_len)

(*--- the adapters ---------------------------------------------------------*)
Failed == [ok |-> FALSE, out |-> <<>>]
Done(out) == [ok |-> TRUE, out |-> out]

\* The caller's buffer after a decompressor wrote filled into it (0xff before).
Buffer(filled, output_len) == filled \o Repeat(255, output_len - Len(filled))

\* Mutant of ZlibRsDecompressor_decompress: the length guard is missing.
ZlibRsDecompressor_decompress_any_len(input, output_len) ==
  LET r == uncompress_slice(output_len, input)
  IN [ok |-> r.rc = "Ok", out |-> Buffer(r.filled, output_len)]
\* ZlibRsDecompressor::decompress
ZlibRsDecompressor_decompress(input, output_len) ==
  LET r == uncompress_slice(output_len, input)
  IN [ok |-> r.rc = "Ok" /\ Len(r.filled) = output_len, out |-> Buffer(r.filled, output_len)]

\* Mutant of ZlibRsCompressor_compress: the buffer is returned at its full size.
ZlibRsCompressor_compress_no_truncate(input, level, mem_ok) ==
  LET cap == compress_bound(Len(input))
      config == IF level = "Interactive" THEN DeflateConfig_default
                ELSE DeflateConfig_new(Z_BEST_COMPRESSION)
      r == compress_slice(cap, input, config, mem_ok)
  IN [cap |-> cap, config |-> config, rc |-> r.rc, used |-> Len(r.filled),
      res |-> IF r.rc # "Ok" THEN Failed
              ELSE Done(r.filled \o Repeat(0, cap - Len(r.filled)))]
\* ZlibRsCompressor::compress, with the values of its locals.
ZlibRsCompressor_compress(input, level, mem_ok) ==
  LET cap == compress_bound(Len(input))
      config == IF level = "Interactive" THEN DeflateConfig_default
                ELSE DeflateConfig_new(Z_BEST_COMPRESSION)
      r == compress_slice(cap, input, config, mem_ok)
      output == r.filled \o Repeat(0, cap - Len(r.filled))
      used == Len(r.filled)
  IN [cap |-> cap, config |-> config, rc |-> r.rc, used |-> used,
      res |-> IF r.rc # "Ok" THEN Failed ELSE Done(SubSeq(output, 1, used))]

\* Mutant of BrotliDecompressor_decompress: the backend's error is dropped.
BrotliDecompressor_decompress_ignore_err(input, output_len) ==
  LET r == BrotliDecompress(input, output_len)
  IN [ok |-> Len(r.out) = output_len, out |-> Buffer(r.out, output_len)]
\* BrotliDecompressor::decompress
BrotliDecompressor_decompress(input, output_len) ==
  LET r == BrotliDecompress(input, output_len)
  IN [ok |-> r.ok /\ Len(r.out) = output_len, out |-> Buffer(r.out, output_len)]

\* Mutant of BrotliCompressor_compress: the writer's Vec is taken without
\* closing the stream.
BrotliCompressor_compress_unfinished(input, level) ==
  LET quality == IF level = "Interactive" THEN QUALITY_FAST ELSE QUALITY_SLOW
  IN Done(write_all(CompressorWriter_new(quality, LGWIN), input).out)
\* BrotliCompressor::compress
BrotliCompressor_compress(input, level) ==
  LET quality == IF level = "Interactive" THEN QUALITY_FAST ELSE QUALITY_SLOW
      compressor == CompressorWriter_new(quality, LGWIN)
  IN Done(into_inner(write_all(compressor, input)))

\* CertCompressor::algorithm and CertDecompressor::algorithm
CompressorAlgorithm(c) == IF c = "ZlibRsCompressor" THEN "Zlib" ELSE "Brotli"
DecompressorAlgorithm(d) == IF d = "ZlibRsDecompressor" THEN "Zlib" ELSE "Brotli"

\* default_cert_compressors() and default_cert_decompressors(), both features on.
default_cert_compressors == <<"BrotliCompressor", "ZlibRsCompressor">>
default_cert_decompressors == <<"BrotliDecompressor", "ZlibRsDecompressor">>

NoEnc == [alg |-> "none", input |-> <<>>, level |-> "none", mem_ok |-> TRUE,
          cap |-> 0, config |-> [level |-> 0], rc |-> "none", used |-> 0, res |-> Failed]
NoDec == [alg |-> "none", kind |-> "none", input |-> <<>>, output_len |-> 0, res |-> Failed]

InitCodec ==
  /\ enc = NoEnc
  /\ dec = NoDec

\* ZLIB_COMPRESSOR.compress(input, level); the backend gets its memory or not.
ZlibCompressWith(input, level, mem_ok) ==
  /\ LET r == ZlibRsCompressor_compress(input, level, mem_ok)
     IN enc' = [alg |-> "Zlib", input |-> input, level |-> level, mem_ok |-> mem_ok,
                cap |-> r.cap, config |-> r.config, rc |-> r.rc, used |-> r.used,
                res |-> r.res]
  /\ dec' = NoDec
  /\ UNCHANGED <<hashVars, concVars, keyVars>>

ZlibCompress(input, level) == ZlibCompressWith(input, level, TRUE)

\* The same call when zlib-rs cannot allocate its state.
ZlibCompressNoMem(input, level) == ZlibCompressWith(input, level, FALSE)

\* BROTLI_COMPRESSOR.compress(input, level)
BrotliCompress(input, level) ==
  /\ enc' = [NoEnc EXCEPT !.alg = "Brotli", !.input = input, !.level = level,
                          !.rc = "Ok", !.res = BrotliCompressor_compress(input, level)]
  /\ dec' = NoDec
  /\ UNCHANGED <<hashVars, concVars, keyVars>>

\* Buffer sizes a caller may declare for a message of n bytes.
OutputLens(n) == (0..(MaxInput + 1)) \cup {m \in {n - 1, n, n + 1} : m >= 0}

\* Inputs of decompress, by kind: the last compressed payload, a strict prefix of
\* it, the payload with a block tag or (Zlib) its checksum overwritten, zeros.
Payloads(kind) ==
  LET z == enc.res.out
  IN CASE kind = "valid" -> {z}
       [] kind = "truncated" -> {SubSeq(z, 1, k) : k \in 0..(Len(z) - 1)}
       [] kind = "badtag" -> {[z EXCEPT ![2] = 9]}
       [] kind = "badsum" -> {[z EXCEPT ![Len(z)] = (@ + 1) % 251]}
       [] OTHER -> {}

Decompressor_decompress(alg, input, output_len) ==
  IF alg = "Zlib" THEN ZlibRsDecompressor_decompress(input, output_len)
  ELSE BrotliDecompressor_decompress(input, output_len)

\* decomp.decompress(&payload, &mut recovered) with the paired decompressor.
Decompress(kind, output_len) ==
  /\ enc.res.ok
  /\ kind = "badsum" => enc.alg = "Zlib"
  /\ \E input \in Payloads(kind) :
       dec' = [alg |-> enc.alg, kind |-> kind, input |-> input, output_len |-> output_len,
               res |-> Decompressor_decompress(enc.alg, input, output_len)]
  /\ UNCHANGED enc
  /\ UNCHANGED <<hashVars, concVars, keyVars>>

\* decomp.decompress(&[0u8; n], &mut recovered): tests::test_decompress_garbage.
\* No compressed payload is involved; the record of the last one is cleared.
DecompressZeros(alg, n, output_len) ==
  /\ dec' = [alg |-> alg, kind |-> "zeros", input |-> Repeat(0, n), output_len |-> output_len,
             res |-> Decompressor_decompress(alg, Repeat(0, n), output_len)]
  /\ enc' = NoEnc
  /\ UNCHANGED <<hashVars, concVars, keyVars>>

NextCodec ==
  \/ \E input \in Inputs, level \in Levels : ZlibCompress(input, level)
  \/ \E input \in Inputs, level \in Levels : BrotliCompress(input, level)
  \/ \E kind \in {"valid", "truncated", "badtag", "badsum"},
          n \in OutputLens(Len(enc.input)) : Decompress(kind, n)
  \/ \E alg \in Algorithms, n \in 1..(MaxInput + 1), m \in OutputLens(0) :
       DecompressZeros(alg, n, m)

NextCodecFault ==
  \/ NextCodec
  \/ \E input \in Inputs, level \in Levels : ZlibCompressNoMem(input, level)

(***************************************************************************)
(* Specifications.                                                         *)
(***************************************************************************)
Init ==
  /\ InitHash
  /\ InitConc
  /\ InitKey
  /\ InitCodec

\* The families share no state and call nothing of one another: each is checked
\* under its own specification, Spec being their interleaving.
Next ==
  \/ NextHash
  \/ NextConc
  \/ NextKey
  \/ NextCodecFault

Spec == Init /\ [][Next]_vars
SpecHash == Init /\ [][NextHash]_vars
SpecConc == Init /\ [][NextConc]_vars
SpecKey == Init /\ [][NextKey]_vars
SpecCodec == Init /\ [][NextCodec]_vars
SpecCodecFault == Init /\ [][NextCodecFault]_vars

(***************************************************************************)
(* Claims about the hash provider (checked under SpecHash).                *)
(***************************************************************************)
\* C1 (fork independence): while an original and its fork both live, with A the
\* bytes the original held at fork(), Bf the bytes given to the fork since and Bo
\* those given to the original since, finish(fork) would be hash(A ++ Bf) and
\* finish(original) hash(A ++ Bo): updates of one never show in the other.
C1_ForkIndependence ==
  pair.fork # 0 =>
    /\ Live(pair.orig) /\ Live(pair.fork)
    /\ Sha2_256_finish(ctx[pair.fork]) = sha2_256(pair.A \o pair.Bf)
    /\ Sha2_256_finish(ctx[pair.orig]) = sha2_256(pair.A \o pair.Bo)

\* C1 witness: a fork of a context holding A # <<>>, only the fork updated with
\* B # <<>>, and the two digests differ.
C1_Witness ==
  /\ pair.fork # 0
  /\ pair.A # <<>> /\ pair.Bf # <<>> /\ pair.Bo = <<>>
  /\ last.op = "update" /\ last.slot = pair.fork
  /\ Sha2_256_finish(ctx[pair.fork]) = sha2_256(pair.A \o pair.Bf)
  /\ Sha2_256_finish(ctx[pair.orig]) = sha2_256(pair.A)
  /\ Sha2_256_finish(ctx[pair.fork]) # Sha2_256_finish(ctx[pair.orig])

\* C2 (fork_finish is non-destructive): every fork_finish() step returns the
\* digest of exactly the bytes accumulated so far and leaves every context as it
\* was; an update(B) that follows it on the same context leaves a state whose
\* finish() is hash(A ++ B).
C2_ForkFinishNonDestructive ==
  [][ /\ last'.op = "fork_finish" =>
           /\ last'.out = sha2_256(fed[last'.slot])
           /\ ctx' = ctx
           /\ fed' = fed
      /\ (last.op = "fork_finish" /\ last'.op = "update" /\ last'.slot = last.slot) =>
           Sha2_256_finish(ctx'[last.slot]) = sha2_256(fed[last.slot] \o last'.data)
      /\ (last.op = "fork_finish" /\ last'.op = "finish" /\ last'.slot = last.slot) =>
           /\ last'.out = last.out
           /\ last'.out = sha2_256(fed[last.slot])
    ]_vars

\* C2 witness: fork_finish() has just returned hash(A), A # <<>>, and the context
\* is still live and can take more bytes.
C2_Witness ==
  /\ last.op = "fork_finish"
  /\ Live(last.slot)
  /\ fed[last.slot] # <<>>
  /\ Len(fed[last.slot]) < MaxLen
  /\ last.out = sha2_256(fed[last.slot])

\* C3 (streaming equals one-shot): a context's state is the state of a new hasher
\* given the concatenation of its chunks in order; finish() returns hash of that
\* concatenation; hash(data) equals start(); update(data); finish().
C3_StreamingEqualsOneShot ==
  /\ \A c \in Slots : Live(c) =>
        /\ ctx[c] = Sha2_256_update(Sha2_256_new, fed[c])
        /\ Sha2_256_finish(ctx[c]) = sha2_256(fed[c])
  /\ last.op = "finish" => last.out = sha2_256(last.data)
  /\ last.op = "hash" =>
        last.out = Sha2_256_finish(Sha2_256_update(Sha2_256_new, last.data))

\* C3 witness: a context was given its bytes in at least two non-empty chunks.
C3_Witness ==
  /\ last.op = "update"
  /\ last.data # <<>>
  /\ Len(fed[last.slot]) > Len(last.data)
  /\ Sha2_256_finish(ctx[last.slot]) = sha2_256(fed[last.slot])
(***************************************************************************)
(* Claims about the shared context (checked under SpecConc).               *)
(***************************************************************************)
InCall(t) == thr[t].pc \in {"lock", "clone", "unlock", "tail"}

\* C9 (mutex scoped to the copy): a thread holds the context's mutex exactly from
\* lock() to the end of the clone statement, never while it finalises or boxes
\* its copy; no lock is held when no call is in progress; every copy taken by a
\* concurrent fork()/fork_finish() is the context's accumulated state and every
\* result is computed from it; the calls leave that state as the owner's updates
\* made it; a thread past lock() can always take its next step, and a thread
\* waiting in lock() can take the mutex or waits for a thread that can step.
C9_LockScopedToCopy ==
  /\ \A t \in Threads : (lock = t) <=> thr[t].pc \in {"clone", "unlock"}
  /\ (lock = Owner) <=> own.pc \in {"work", "unlock"}
  /\ (NoBorrow /\ NoOwnerCall) => lock = Free
  /\ shared # NoCtx => shared = Sha2_256_update(Sha2_256_new, acc)
  /\ \A t \in Threads :
        /\ thr[t].pc \in {"unlock", "tail", "done"} => thr[t].hasher = shared
        /\ (thr[t].pc = "done" /\ thr[t].op = "fork") => thr[t].ret = shared
        /\ (thr[t].pc = "done" /\ thr[t].op = "fork_finish") => thr[t].out = sha2_256(acc)
  /\ \A t \in Threads :
        /\ thr[t].pc \in {"clone", "unlock", "tail"} => ENABLED ThreadStep(t)
        /\ thr[t].pc = "lock" =>
              \/ lock = Free /\ ENABLED Acquire(t)
              \/ \E u \in Threads : lock = u /\ ENABLED ThreadStep(u)

\* C9 witness: one thread is finalising its copy with the mutex already free
\* while another holds the mutex, on a context that has accumulated bytes.
C9_Witness ==
  /\ acc # <<>>
  /\ \E t, u \in Threads :
        /\ t # u
        /\ thr[t].pc = "tail" /\ thr[t].op = "fork_finish"
        /\ thr[u].pc = "clone" /\ thr[u].op = "fork"
        /\ lock = u

(***************************************************************************)
(* Claims about CertifiedKey (checked under SpecKey).                      *)
(***************************************************************************)
\* C7 (empty-chain detection): CertifiedKey::new accepts every chain, the empty
\* one included, and yields a value with ocsp = None and the chain stored as
\* given; end_entity_cert() returns Err(NoCertificatesPresented) if and only if
\* the chain is empty and otherwise Ok(the first chain element).
C7_EmptyChainDetection ==
  /\ \A s \in KeySlots, chain \in Chains, key \in Keys :
        cks[s] = NoKey => ENABLED NewKey(s, chain, key)
  /\ klast.op = "new" =>
        /\ cks[klast.slot].cert = klast.chain
        /\ cks[klast.slot].key = klast.key
        /\ cks[klast.slot].ocsp = None
  /\ klast.op = "end_entity_cert" =>
        /\ (klast.res = Err("NoCertificatesPresented")) <=> (klast.chain = <<>>)
        /\ klast.chain # <<>> => klast.res = Ok(klast.chain[1])
        /\ cks[klast.slot].cert = klast.chain

\* C7 witness: end_entity_cert() has just failed on a value built from the empty
\* chain, while a value with a chain of two certificates lives beside it.
C7_Witness ==
  /\ klast.op = "end_entity_cert"
  /\ klast.chain = <<>>
  /\ given[klast.slot] = <<>>
  /\ klast.res = Err("NoCertificatesPresented")
  /\ \E s \in KeySlots : Len(cks[s].cert) = 2 /\ cks[s].cert[1] # cks[s].cert[2]

\* C8 as stated: every CertifiedKey value has a chain of at least one element.
C8_ChainNeverEmpty ==
  \A s \in KeySlots : cks[s] # NoKey => Len(cks[s].cert) >= 1

\* C8 as amended: every CertifiedKey value holds exactly the chain it was
\* constructed from, so its chain is non-empty, with the first element the one
\* end_entity_cert() returns, whenever the chain given to new was non-empty.
C8_ChainAsGiven ==
  \A s \in KeySlots : cks[s] # NoKey =>
    /\ cks[s].cert = given[s]
    /\ given[s] # <<>> =>
          /\ Len(cks[s].cert) >= 1
          /\ end_entity_cert(cks[s]) = Ok(given[s][1])

\* C8 witness: a clone of a value constructed from a two-certificate chain.
C8_Witness ==
  /\ klast.op = "clone"
  /\ Len(given[klast.slot]) = 2
  /\ given[klast.slot][1] # given[klast.slot][2]
  /\ cks[klast.slot].cert = given[klast.slot]

(***************************************************************************)
(* Claims about the compressors (checked under SpecCodec, C10 under         *)
(* SpecCodecFault).                                                         *)
(***************************************************************************)
\* C4 (exact-size enforcement): decompressing the payload compress() made of an
\* n-byte input succeeds only into a buffer of exactly n bytes (so n - 1 and
\* n + 1 fail), for Zlib and Brotli; a success leaves no byte of the buffer
\* unwritten.
C4_ExactSize ==
  /\ dec.kind = "valid" => (dec.res.ok <=> dec.output_len = Len(enc.input))
  /\ (dec.alg # "none" /\ dec.res.ok) =>
        /\ Len(dec.res.out) = dec.output_len
        /\ \A i \in 1..Len(dec.res.out) : dec.res.out[i] # 255

\* C4 witness: a valid payload was refused because the buffer was one byte larger
\* than the message.
C4_Witness ==
  /\ dec.kind = "valid"
  /\ Len(enc.input) >= 1
  /\ dec.output_len = Len(enc.input) + 1
  /\ ~dec.res.ok

C6_GarbageRejected ==
  /\ dec.kind \in {"zeros", "truncated", "badtag", "badsum"} => dec.res.ok = FALSE
  /\ (dec.alg = "Zlib" /\ uncompress_slice(dec.output_len, dec.input).rc # "Ok")
        => dec.res.ok = FALSE
  /\ (dec.alg = "Brotli" /\ ~BrotliDecompress(dec.input, dec.output_len).ok)
        => dec.res.ok = FALSE

\* C6 witness: Brotli refused zeros given an empty buffer, which the backend
\* could not even have overrun.
C6_Witness ==
  /\ dec.kind = "zeros" /\ dec.alg = "Brotli"
  /\ Len(dec.input) = MaxInput + 1
  /\ dec.output_len = 0
  /\ ~dec.res.ok

\* C10 (Zlib compressor): the output buffer has compress_bound(len(input)) bytes;
\* a return code other than Ok gives Err(CompressionFailed) and no output; with Ok
\* the result is exactly the bytes the backend filled, no more than the bound;
\* Interactive selects the default configuration, Amortized best compression.
C10_ZlibCompressor ==
  enc.alg = "Zlib" =>
    /\ enc.cap = compress_bound(Len(enc.input))
    /\ enc.config = IF enc.level = "Interactive" THEN DeflateConfig_default
                    ELSE DeflateConfig_new(Z_BEST_COMPRESSION)
    /\ enc.rc # "Ok" => enc.res = Failed
    /\ enc.rc = "Ok" =>
          /\ enc.res.ok
          /\ enc.res.out = compress_slice(enc.cap, enc.input, enc.config, enc.mem_ok).filled
          /\ Len(enc.res.out) = enc.used
          /\ enc.used <= enc.cap

\* C10 witness: an Amortized Zlib compression that filled less than its buffer.
C10_Witness ==
  /\ enc.alg = "Zlib" /\ enc.level = "Amortized"
  /\ enc.rc = "Ok"
  /\ enc.input # <<>>
  /\ enc.used < enc.cap
  /\ Len(enc.res.out) = enc.used

====
